---- MODULE Spec2Model ----
(***************************************************************************)
(* A model of fetch.py, the one-shot health check of an Ethereum validator *)
(* stack: check_geth_sync, check_consensus_sync and check_validator, run   *)
(* in that order by main.                                                  *)
(*                                                                         *)
(* Decoded JSON is modelled as tagged values [t, v]; a Python string is a  *)
(* sequence of one-character strings, so that parsing (int(s), int(s,16)), *)
(* substring tests and str(n) are computed rather than assumed.  An        *)
(* exception that no handler catches ends the process: pc = "crashed".     *)
(***************************************************************************)
EXTENDS Integers, Sequences, FiniteSets, TLC

(***************************************************************************)
(* Bounds of the model.                                                    *)
(***************************************************************************)
\* longest VALIDATOR_INDEX text that is enumerated
MaxIndexLen == 2
\* chain-head slots are the first and last slot of epochs 0..MaxEpoch
MaxEpoch == 2
\* longest duties list that is enumerated
MaxDuties == 2

(***************************************************************************)
(* Python / JSON values.                                                   *)
(***************************************************************************)
Null == [t |-> "null", v |-> 0]
Bool(b) == [t |-> "bool", v |-> b]
Num(n) == [t |-> "num", v |-> n]
Str(s) == [t |-> "str", v |-> s]
Arr(s) == [t |-> "arr", v |-> s]
\* a key that an object does not have, used only to build objects
Absent == [t |-> "absent", v |-> 0]
\* the object holding the fields of r that are not Absent
Obj(r) == [t |-> "obj", v |-> [k \in {j \in DOMAIN r : r[j] # Absent} |-> r[k]]]
EmptyObj == Obj([none |-> Absent])
\* a local variable that has not been assigned
Unset == [t |-> "unset", v |-> 0]
\* the outcome of an expression that raises exception e
Raise(e) == [t |-> "raise", v |-> e]
IsRaise(x) == x.t = "raise"

\* the characters of the string literals the code tests with "in"
Chars ==
  [result |-> <<"r", "e", "s", "u", "l", "t">>,
   data |-> <<"d", "a", "t", "a">>,
   active |-> <<"a", "c", "t", "i", "v", "e">>,
   pending |-> <<"p", "e", "n", "d", "i", "n", "g">>]

\* bool(x)
Truthy(x) ==
  CASE x.t = "null" -> FALSE
    [] x.t = "bool" -> x.v
    [] x.t = "num" -> x.v # 0
    [] x.t \in {"str", "arr"} -> Len(x.v) > 0
    [] x.t = "obj" -> DOMAIN x.v # {}

IsSubstring(sub, s) ==
  \E i \in 0..(Len(s) - Len(sub)) : SubSeq(s, i + 1, i + Len(sub)) = sub

\* key in x, for a string literal key
Contains(key, x) ==
  CASE x.t = "obj" -> Bool(key \in DOMAIN x.v)
    [] x.t = "arr" -> Bool(\E i \in 1..Len(x.v) : x.v[i] = Str(Chars[key]))
    [] x.t = "str" -> Bool(IsSubstring(Chars[key], x.v))
    [] x.t = "raise" -> x
    [] OTHER -> Raise("TypeError")

\* x[key], for a string literal key
Subscript(x, key) ==
  CASE x.t = "obj" -> IF key \in DOMAIN x.v THEN x.v[key] ELSE Raise("KeyError")
    [] x.t = "raise" -> x
    [] OTHER -> Raise("TypeError")

\* x.get(key, default)
Get(x, key, default) ==
  CASE x.t = "obj" -> IF key \in DOMAIN x.v THEN x.v[key] ELSE default
    [] x.t = "raise" -> x
    [] OTHER -> Raise("AttributeError")

(***************************************************************************)
(* int(s, base) and int(x) on the alphabets used below (no whitespace, no  *)
(* underscores).                                                           *)
(***************************************************************************)
DigitVal ==
  ("0" :> 0) @@ ("1" :> 1) @@ ("2" :> 2) @@ ("3" :> 3) @@ ("4" :> 4) @@
  ("5" :> 5) @@ ("6" :> 6) @@ ("7" :> 7) @@ ("8" :> 8) @@ ("9" :> 9) @@
  ("a" :> 10) @@ ("b" :> 11) @@ ("c" :> 12) @@ ("d" :> 13) @@ ("e" :> 14) @@
  ("f" :> 15) @@ ("A" :> 10) @@ ("B" :> 11) @@ ("C" :> 12) @@ ("D" :> 13) @@
  ("E" :> 14) @@ ("F" :> 15)

IsDigits(ds, base) ==
  /\ Len(ds) > 0
  /\ \A i \in 1..Len(ds) : ds[i] \in DOMAIN DigitVal /\ DigitVal[ds[i]] < base

RECURSIVE DigitsValue(_, _, _)
DigitsValue(ds, base, acc) ==
  IF ds = <<>> THEN acc
  ELSE DigitsValue(Tail(ds), base, acc * base + DigitVal[Head(ds)])

StripSign(s) == IF Len(s) > 0 /\ s[1] \in {"-", "+"} THEN Tail(s) ELSE s

StripPrefix(s, base) ==
  IF base = 16 /\ Len(s) >= 2 /\ s[1] = "0" /\ s[2] \in {"x", "X"}
  THEN SubSeq(s, 3, Len(s)) ELSE s

\* int(s, base) for a string s
ParseInt(s, base) ==
  LET body == StripPrefix(StripSign(s), base)
      mag == DigitsValue(body, base, 0)
  IN IF IsDigits(body, base)
     THEN Num(IF s[1] = "-" THEN 0 - mag ELSE mag)
     ELSE Raise("ValueError")

\* int(x)
PyInt(x) ==
  CASE x.t = "str" -> ParseInt(x.v, 10)
    [] x.t = "num" -> x
    [] x.t = "bool" -> Num(IF x.v THEN 1 ELSE 0)
    [] x.t = "raise" -> x
    [] OTHER -> Raise("TypeError")

\* str(n) for an integer n
RECURSIVE NatToStr(_)
NatToStr(n) ==
  LET d == <<"0", "1", "2", "3", "4", "5", "6", "7", "8", "9">>[(n % 10) + 1]
  IN IF n < 10 THEN <<d>> ELSE Append(NatToStr(n \div 10), d)

PyStr(n) == IF n < 0 THEN <<"-">> \o NatToStr(0 - n) ELSE NatToStr(n)

\* hex_to_int: the bare except turns every failure into None
hex_to_int(h) ==
  IF h.t = "str" /\ ~IsRaise(ParseInt(h.v, 16)) THEN ParseInt(h.v, 16) ELSE Null

(***************************************************************************)
(* Transport.                                                              *)
(***************************************************************************)
\* what a JSON exchange (request, read, decode) can end in
Exchange(kind, val) == [kind |-> kind, val |-> val]
FailedExchanges ==
  {Exchange(k, Null) : k \in {"net_error", "http_error", "bad_json"}}
EmptyBody == Exchange("empty", Null)
Json(val) == Exchange("json", val)

\* http_get / http_post: None on any exception, {} for an empty body
HttpResult(x) ==
  CASE x.kind = "json" -> x.val
    [] x.kind = "empty" -> EmptyObj
    [] OTHER -> Null

\* what urlopen can end in: a 2xx response, an HTTPError carrying a code,
\* or a failure below HTTP (refused, timeout)
Probe(kind, code) == [kind |-> kind, code |-> code]
ProbeOutcomes ==
  {Probe("response", c) : c \in {200, 204, 206}} \cup
  {Probe("http_error", c) : c \in {404, 500, 503}} \cup
  {Probe("net_error", 0)}

\* a request to endpoint ep, with the value put in its URL (or None)
Request(ep, arg) == [ep |-> ep, arg |-> arg]

\* a verdict line, named after the variant it stands for; its arguments are
\* the values the line prints
V(tag, args) == [t |-> tag, v |-> args]
NoVerdict == V("none", <<>>)

(***************************************************************************)
(* Responses the execution endpoint can give.                              *)
(***************************************************************************)
HexTexts ==
  {Str(<<"0", "x", "1", "0">>), Str(<<"0", "x", "2", "0">>),
   Str(<<"1", "f">>), Str(<<"z", "z">>)}
BlockFields == {Absent, Null} \cup HexTexts

\* values decoded from a body that is valid JSON but not an object
NonObjects ==
  {Bool(TRUE), Bool(FALSE), Num(0), Num(5), Str(<<>>), Str(Chars["result"]),
   Str(Chars["data"]), Arr(<<>>), Arr(<<Num(1)>>), Arr(<<Str(Chars["result"])>>),
   Arr(<<Str(Chars["data"])>>)}

ErrorObject == Obj([error |-> Str(<<"e">>)])

EthSyncingExchanges ==
  FailedExchanges \cup {EmptyBody} \cup
  {Json(j) : j \in NonObjects \cup {ErrorObject}} \cup
  {Json(Obj([result |-> r])) : r \in {Bool(FALSE), Bool(TRUE), Null, Num(0),
                                       Str(<<"0", "x", "0">>), Arr(<<>>)}} \cup
  {Json(Obj([result |-> Obj([currentBlock |-> c, highestBlock |-> h])])) :
     c \in BlockFields, h \in BlockFields}

BlockNumberExchanges ==
  FailedExchanges \cup {EmptyBody} \cup
  {Json(j) : j \in NonObjects \cup {ErrorObject}} \cup
  {Json(Obj([result |-> r])) : r \in HexTexts \cup {Null, Num(16)}}

(***************************************************************************)
(* State.                                                                  *)
(***************************************************************************)
VARIABLES
  pc,               \* the statement main or the running check is at
  exc,              \* the exception that ended the process, or "none"
  VALIDATOR_INDEX,  \* the environment's value: a string, or Null when unset
  frame,            \* the local variables of the running check
  probe,            \* how the check's urlopen reachability probe ended
  calls,            \* the requests the running check has issued, in order
  started,          \* the checks whose header has been printed
  ended,            \* the checks that have printed their verdict
  verdict           \* the verdict line of the running check

vars == <<pc, exc, VALIDATOR_INDEX, frame, probe, calls, started, ended, verdict>>

NoProbe == Probe("none", 0)
MainFrame == [fn |-> "main"]
GethFrame == [fn |-> "check_geth_sync", sync_data |-> Unset, result |-> Unset,
              bn |-> Unset]

\* a check prints the verdict line v and returns to main at label ret
Return(v, ret) ==
  /\ verdict' = v
  /\ ended' = ended \cup {frame.fn}
  /\ pc' = ret
  /\ exc' = exc

\* an exception nothing catches unwinds through main and ends the process
Crash(e) ==
  /\ pc' = "crashed"
  /\ exc' = e
  /\ UNCHANGED <<verdict, ended>>

\* the check goes on to its statement at label l
Goto(l) ==
  /\ pc' = l
  /\ UNCHANGED <<exc, verdict, ended>>

\* main calls the check whose fresh locals are f, entering it at label l
Call(f, l) ==
  /\ frame' = f
  /\ started' = started \cup {f.fn}
  /\ verdict' = NoVerdict
  /\ probe' = NoProbe
  /\ calls' = <<>>
  /\ pc' = l
  /\ UNCHANGED <<exc, VALIDATOR_INDEX, ended>>

(***************************************************************************)
(* check_geth_sync                                                         *)
(***************************************************************************)
Main_CallGeth ==
  /\ pc = "main_236"
  /\ Call(GethFrame, "geth_68")

\* the bare except of the reachability probe: any exception, an HTTPError
\* included, counts as unreachable
GethReachable(p) == p.kind = "response"

Geth_Reachability ==
  /\ pc = "geth_68"
  /\ \E p \in ProbeOutcomes :
       /\ probe' = p
       /\ calls' = Append(calls, Request("rpc_probe", Null))
       /\ IF GethReachable(p) THEN Goto("geth_76")
          ELSE Return(V("Unreachable", <<>>), "main_237")
  /\ UNCHANGED <<VALIDATOR_INDEX, frame, started>>

\* the Syncing line of a structured result, or the TypeError of subtracting
\* with None
SyncingVerdict(result) ==
  LET current == hex_to_int(Get(result, "currentBlock", Str(<<"0", "x", "0">>)))
      highest == hex_to_int(Get(result, "highestBlock", Str(<<"0", "x", "0">>)))
  IN IF current = Null \/ highest = Null THEN Raise("TypeError")
     ELSE V("Syncing", <<current, highest, Num(highest.v - current.v)>>)

Geth_EthSyncing ==
  /\ pc = "geth_76"
  /\ \E x \in EthSyncingExchanges :
       LET sync_data == HttpResult(x)
           result == Get(sync_data, "result", Null)
       IN /\ calls' = Append(calls, Request("eth_syncing", Null))
          /\ IF ~Truthy(sync_data)
             THEN /\ frame' = [frame EXCEPT !.sync_data = sync_data]
                  /\ Return(V("CallFailed", <<>>), "main_237")
             ELSE IF IsRaise(result)
             THEN /\ frame' = [frame EXCEPT !.sync_data = sync_data]
                  /\ Crash(result.v)
             ELSE /\ frame' = [frame EXCEPT !.sync_data = sync_data,
                                            !.result = result]
                  /\ IF result = Bool(FALSE) THEN Goto("geth_87")
                     ELSE IF result.t = "obj"
                     THEN IF IsRaise(SyncingVerdict(result))
                          THEN Crash(SyncingVerdict(result).v)
                          ELSE Return(SyncingVerdict(result), "main_237")
                     ELSE Return(V("MalformedResponse", <<>>), "main_237")
  /\ UNCHANGED <<VALIDATOR_INDEX, probe, started>>

\* the line printed once eth_syncing has said false
SyncedVerdict(bn) ==
  LET has == IF Truthy(bn) THEN Contains("result", bn) ELSE Bool(FALSE)
      r == Subscript(bn, "result")
  IN IF IsRaise(has) THEN has
     ELSE IF ~has.v THEN V("SyncedUnknownHeight", <<>>)
     ELSE IF IsRaise(r) THEN r
     ELSE V("Synced", <<hex_to_int(r)>>)

Geth_BlockNumber ==
  /\ pc = "geth_87"
  /\ \E x \in BlockNumberExchanges :
       LET bn == HttpResult(x)
       IN /\ calls' = Append(calls, Request("eth_blockNumber", Null))
          /\ frame' = [frame EXCEPT !.bn = bn]
          /\ IF IsRaise(SyncedVerdict(bn)) THEN Crash(SyncedVerdict(bn).v)
             ELSE Return(SyncedVerdict(bn), "main_237")
  /\ UNCHANGED <<VALIDATOR_INDEX, probe, started>>

(***************************************************************************)
(* check_consensus_sync                                                    *)
(***************************************************************************)
ConsFrame == [fn |-> "check_consensus_sync", code |-> Unset, sync_data |-> Unset]

\* /eth/v1/node/syncing bodies
SyncingExchanges ==
  FailedExchanges \cup {EmptyBody} \cup
  {Json(j) : j \in NonObjects \cup {ErrorObject}} \cup
  {Json(Obj([data |-> d])) : d \in {Null, Num(1), Arr(<<>>), Str(<<>>)}} \cup
  {Json(Obj([data |-> Obj([is_syncing |-> b, head_slot |-> h])])) :
     b \in {Absent, Null, Bool(TRUE), Bool(FALSE), Num(0), Str(<<"n", "o">>)},
     h \in {Absent, Null, Str(<<"6", "4">>)}}

Main_CallConsensus ==
  /\ pc = "main_237"
  /\ Call(ConsFrame, "cons_113")

\* the HTTPError handler left out: only a response yields a code
HealthCode_NoHttpErrorHandler(p) ==
  CASE p.kind = "response" -> Num(p.code)
    [] OTHER -> Raise("URLError")

\* the status code the health probe yields: r.status, or e.code of an
\* HTTPError; anything else falls to the bare except
HealthCode(p) ==
  CASE p.kind = "response" -> Num(p.code)
    [] p.kind = "http_error" -> Num(p.code)
    [] OTHER -> Raise("URLError")

\* the elif chain for a code other than 200
StatusVerdict(code) ==
  CASE code = 206 -> V("SyncingPartial", <<>>)
    [] code = 503 -> V("Initializing", <<>>)
    [] OTHER -> V("UnexpectedStatus", <<Num(code)>>)

Cons_Health ==
  /\ pc = "cons_113"
  /\ \E p \in ProbeOutcomes :
       LET code == HealthCode(p)
       IN /\ probe' = p
          /\ calls' = Append(calls, Request("node_health", Null))
          /\ IF IsRaise(code)
             THEN /\ frame' = frame
                  /\ Return(V("Unreachable", <<>>), "main_238")
             ELSE /\ frame' = [frame EXCEPT !.code = code]
                  /\ IF code.v = 200 THEN Goto("cons_124")
                     ELSE Return(StatusVerdict(code.v), "main_238")
  /\ UNCHANGED <<VALIDATOR_INDEX, started>>

\* the line printed for HTTP 200, given what /node/syncing returned
HealthyVerdict(sync_data) ==
  LET has == IF Truthy(sync_data) THEN Contains("data", sync_data)
             ELSE Bool(FALSE)
      data == Subscript(sync_data, "data")
      is_syncing == Subscript(data, "is_syncing")
  IN IF IsRaise(has) THEN has
     ELSE IF ~has.v THEN V("HealthyUnknownSyncDetail", <<>>)
     ELSE IF IsRaise(is_syncing) THEN is_syncing
     ELSE IF Truthy(is_syncing)
     THEN V("HealthyHeadCatchingUp", <<Get(data, "head_slot", Null)>>)
     ELSE V("HealthySynced", <<>>)

Cons_Syncing ==
  /\ pc = "cons_124"
  /\ \E x \in SyncingExchanges :
       LET sync_data == HttpResult(x)
       IN /\ calls' = Append(calls, Request("node_syncing", Null))
          /\ frame' = [frame EXCEPT !.sync_data = sync_data]
          /\ IF IsRaise(HealthyVerdict(sync_data))
             THEN Crash(HealthyVerdict(sync_data).v)
             ELSE Return(HealthyVerdict(sync_data), "main_238")
  /\ UNCHANGED <<VALIDATOR_INDEX, probe, started>>

(***************************************************************************)
(* check_validator                                                         *)
(***************************************************************************)
SLOTS_PER_EPOCH == 32

ValFrame ==
  [fn |-> "check_validator", val_index_int |-> Unset, val_index_str |-> Unset,
   v_data |-> Unset, status |-> Unset, short_pk |-> Unset, summary |-> Unset,
   head |-> Unset, current_slot |-> Unset, epoch |-> Unset,
   duties_data |-> Unset, my_duty |-> Unset, att_slot |-> Unset]

\* every text of at most n characters over alphabet a
RECURSIVE Texts(_, _)
Texts(a, n) ==
  IF n = 0 THEN {<<>>}
  ELSE Texts(a, n - 1) \cup {Append(t, c) : t \in Texts(a, n - 1), c \in a}

\* the environment's VALIDATOR_INDEX: unset, or a text
IndexAlphabet == {"-", "5", "a"}
IndexConfigs == {Null} \cup {Str(t) : t \in Texts(IndexAlphabet, MaxIndexLen)}

ActiveOngoing ==
  <<"a", "c", "t", "i", "v", "e", "_", "o", "n", "g", "o", "i", "n", "g">>
PendingQueued ==
  <<"p", "e", "n", "d", "i", "n", "g", "_", "q", "u", "e", "u", "e", "d">>
ExitedSlashed ==
  <<"e", "x", "i", "t", "e", "d", "_", "s", "l", "a", "s", "h", "e", "d">>
Pubkey == <<"0", "x", "a", "1", "b", "2", "c", "3", "d", "4", "e", "5", "f", "6">>

\* /eth/v1/beacon/states/head/validators/{index} bodies
ValidatorExchanges ==
  FailedExchanges \cup {EmptyBody} \cup
  {Json(j) : j \in NonObjects \cup {ErrorObject}} \cup
  {Json(Obj([data |-> d])) : d \in {Null, Arr(<<>>)}} \cup
  {Json(Obj([data |-> Obj([status |-> st, validator |-> va])])) :
     st \in {Str(ActiveOngoing), Str(PendingQueued), Str(ExitedSlashed)},
     va \in {Obj([pubkey |-> Str(Pubkey)])}} \cup
  {Json(Obj([data |-> Obj([status |-> st, validator |-> va])])) :
     st \in {Absent, Null, Str(ActiveOngoing)},
     va \in {Absent, EmptyObj, Obj([pubkey |-> Null])}}

\* the slots a chain head is drawn from: each epoch's first and last slot
HeadSlots == UNION {{SLOTS_PER_EPOCH * e, SLOTS_PER_EPOCH * e + SLOTS_PER_EPOCH - 1} : e \in 0..MaxEpoch}

HeadOf(slot) ==
  Obj([data |-> Obj([header |-> Obj([message |-> Obj([slot |-> slot])])])])

\* /eth/v1/beacon/headers/head bodies
HeadExchanges ==
  FailedExchanges \cup {EmptyBody} \cup
  {Json(j) : j \in NonObjects \cup {ErrorObject}} \cup
  {Json(Obj([data |-> Null]))} \cup
  {Json(HeadOf(sl)) : sl \in {Absent, Null, Str(<<"z", "z">>), Num(40),
                              Str(<<"-", "1">>)}} \cup
  {Json(HeadOf(Str(PyStr(n)))) : n \in HeadSlots}

\* the entries a duties list is drawn from
DutyEntries ==
  {Obj([validator_index |-> Str(<<"5">>), slot |-> Str(<<"0">>)]),
   Obj([validator_index |-> Str(<<"5">>), slot |-> Str(<<"3", "3">>)]),
   Obj([validator_index |-> Num(5), slot |-> Str(<<"6", "4">>)]),
   Obj([validator_index |-> Str(<<"5", "5">>), slot |-> Num(31)]),
   Obj([validator_index |-> Str(<<"z", "z">>), slot |-> Str(<<"0">>)]),
   Obj([validator_index |-> Absent, slot |-> Str(<<"0">>)]),
   Obj([validator_index |-> Str(<<"5">>), slot |-> Absent]),
   Obj([validator_index |-> Str(<<"5">>), slot |-> Str(<<"z", "z">>)]),
   Num(5)}

\* every list of at most n duty entries
RECURSIVE DutyLists(_)
DutyLists(n) ==
  IF n = 0 THEN {<<>>}
  ELSE DutyLists(n - 1) \cup
       {Append(l, e) : l \in DutyLists(n - 1), e \in DutyEntries}

\* /eth/v1/validator/duties/attester/{epoch} bodies
DutiesExchanges ==
  FailedExchanges \cup {EmptyBody} \cup
  {Json(j) : j \in NonObjects \cup {ErrorObject}} \cup
  {Json(Obj([data |-> d])) : d \in {Null, Num(5), Str(<<>>), EmptyObj}} \cup
  {Json(Obj([data |-> Arr(l)])) : l \in DutyLists(MaxDuties)}

Main_CallValidator ==
  /\ pc = "main_238"
  /\ Call(ValFrame, "val_148")

\* the guard left out: every value goes on to be parsed
IndexConfigured_NoGuard(idx) == TRUE

\* "if not VALIDATOR_INDEX" lets the resolution go on
IndexConfigured(idx) == Truthy(idx)

Val_ParseIndex ==
  /\ pc = "val_148"
  /\ IF ~IndexConfigured(VALIDATOR_INDEX)
     THEN /\ frame' = frame
          /\ Return(V("NoIndexConfigured", <<>>), "main_240")
     ELSE IF IsRaise(PyInt(VALIDATOR_INDEX))
     THEN \* the handler catches ValueError and nothing else
          /\ frame' = frame
          /\ IF PyInt(VALIDATOR_INDEX).v = "ValueError"
             THEN Return(V("InvalidIndex", <<>>), "main_240")
             ELSE Crash(PyInt(VALIDATOR_INDEX).v)
     ELSE /\ frame' = [frame EXCEPT
                        !.val_index_int = PyInt(VALIDATOR_INDEX),
                        !.val_index_str = Str(PyStr(PyInt(VALIDATOR_INDEX).v))]
          /\ Goto("val_162")
  /\ UNCHANGED <<VALIDATOR_INDEX, probe, calls, started>>

\* "not v_data or 'data' not in v_data" is false: the record was found
ValidatorFound(v_data) ==
  IF ~Truthy(v_data) THEN Bool(FALSE) ELSE Contains("data", v_data)

\* x[:6] and x[-4:], which only a str or a list supports
Slice(x, from, to) ==
  IF x.t \in {"str", "arr"}
  THEN [t |-> x.t, v |-> SubSeq(x.v, IF from < 1 THEN 1 ELSE from,
                                IF to > Len(x.v) THEN Len(x.v) ELSE to)]
  ELSE Raise("TypeError")

ShortPk(pubkey) ==
  IF IsRaise(pubkey) THEN pubkey
  ELSE IF IsRaise(Slice(pubkey, 1, 6)) THEN Slice(pubkey, 1, 6)
  ELSE [t |-> "fstr",
        v |-> <<Slice(pubkey, 1, 6), Slice(pubkey, Len(pubkey.v) - 3, Len(pubkey.v))>>]

\* the severity branch taken on the status field
StatusSummary(status) ==
  LET a == Contains("active", status)
      p == Contains("pending", status)
  IN IF IsRaise(a) THEN a
     ELSE IF a.v THEN Str(<<"Active">>)
     ELSE IF p.v THEN Str(<<"Pending">>)
     ELSE Str(<<"Other">>)

Val_LookupValidator ==
  /\ pc = "val_162"
  /\ \E x \in ValidatorExchanges :
       LET v_data == HttpResult(x)
           found == ValidatorFound(v_data)
           data == Subscript(v_data, "data")
           status == Subscript(data, "status")
           pubkey == Subscript(Subscript(data, "validator"), "pubkey")
           short_pk == ShortPk(pubkey)
           summary == StatusSummary(status)
       IN /\ calls' = Append(calls, Request("validator", frame.val_index_str))
          /\ IF IsRaise(found)
             THEN /\ frame' = [frame EXCEPT !.v_data = v_data]
                  /\ Crash(found.v)
             ELSE IF ~found.v
             THEN /\ frame' = [frame EXCEPT !.v_data = v_data]
                  /\ Return(V("ValidatorNotFound", <<>>), "main_240")
             ELSE IF IsRaise(status)
             THEN /\ frame' = [frame EXCEPT !.v_data = v_data]
                  /\ Crash(status.v)
             ELSE IF IsRaise(short_pk)
             THEN /\ frame' = [frame EXCEPT !.v_data = v_data, !.status = status]
                  /\ Crash(short_pk.v)
             ELSE IF IsRaise(summary)
             THEN /\ frame' = [frame EXCEPT !.v_data = v_data, !.status = status,
                                            !.short_pk = short_pk]
                  /\ Crash(summary.v)
             ELSE /\ frame' = [frame EXCEPT !.v_data = v_data, !.status = status,
                                            !.short_pk = short_pk,
                                            !.summary = summary]
                  /\ Goto("val_182")
  /\ UNCHANGED <<VALIDATOR_INDEX, probe, started>>

\* "if not head" is false: the chain head is available
HeadAvailable(head) == Truthy(head)

\* the division rounding up instead of down
EpochOf_RoundUp(current_slot) ==
  (current_slot + SLOTS_PER_EPOCH - 1) \div SLOTS_PER_EPOCH

\* epoch = current_slot // 32
EpochOf(current_slot) == current_slot \div SLOTS_PER_EPOCH

Val_LookupHead ==
  /\ pc = "val_182"
  /\ \E x \in HeadExchanges :
       LET head == HttpResult(x)
           current_slot ==
             PyInt(Subscript(Subscript(Subscript(Subscript(head, "data"),
                   "header"), "message"), "slot"))
       IN /\ calls' = Append(calls, Request("head", Null))
          /\ IF ~HeadAvailable(head)
             THEN /\ frame' = [frame EXCEPT !.head = head]
                  /\ Return(V("HeadUnavailable", <<>>), "main_240")
             ELSE IF IsRaise(current_slot)
             THEN /\ frame' = [frame EXCEPT !.head = head]
                  /\ Crash(current_slot.v)
             ELSE /\ frame' = [frame EXCEPT !.head = head,
                                            !.current_slot = current_slot,
                                            !.epoch = Num(EpochOf(current_slot.v))]
                  /\ Goto("val_198")
  /\ UNCHANGED <<VALIDATOR_INDEX, probe, started>>

\* "not duties_data or 'data' not in duties_data" is false
DutiesAvailable(duties_data) ==
  IF ~Truthy(duties_data) THEN Bool(FALSE) ELSE Contains("data", duties_data)

\* what "for d in x" yields, or the TypeError of a value that is not iterable;
\* a dict yields its keys, which are strings
Iterate(x) ==
  CASE x.t = "arr" -> x
    [] x.t = "str" -> Arr([i \in 1..Len(x.v) |-> Str(<<x.v[i]>>)])
    [] x.t = "obj" -> Arr([i \in 1..Cardinality(DOMAIN x.v) |-> Str(<<"k">>)])
    [] x.t = "raise" -> x
    [] OTHER -> Raise("TypeError")

\* next((d for d in items if int(d["validator_index"]) == val_index_int), None)
RECURSIVE FindDuty(_, _)
FindDuty(items, val_index_int) ==
  IF items = <<>> THEN Null
  ELSE LET n == PyInt(Subscript(Head(items), "validator_index"))
       IN IF IsRaise(n) THEN n
          ELSE IF n.v = val_index_int THEN Head(items)
          ELSE FindDuty(Tail(items), val_index_int)

\* the difference taken the other way round
DutyTiming_Reversed(att_slot, current_slot) ==
  LET slots_away == current_slot - att_slot
  IN IF slots_away > 0 THEN V("Upcoming", <<Num(att_slot), Num(slots_away)>>)
     ELSE IF slots_away = 0 THEN V("Imminent", <<Num(att_slot)>>)
     ELSE V("Past", <<Num(att_slot), Num(0 - slots_away)>>)

\* the line printed for a duty at att_slot when the head is at current_slot
DutyTiming(att_slot, current_slot) ==
  LET slots_away == att_slot - current_slot
  IN IF slots_away > 0 THEN V("Upcoming", <<Num(att_slot), Num(slots_away)>>)
     ELSE IF slots_away = 0 THEN V("Imminent", <<Num(att_slot)>>)
     ELSE V("Past", <<Num(att_slot), Num(0 - slots_away)>>)

Val_LookupDuties ==
  /\ pc = "val_198"
  /\ \E x \in DutiesExchanges :
       LET duties_data == HttpResult(x)
           available == DutiesAvailable(duties_data)
           items == Iterate(Subscript(duties_data, "data"))
           my_duty == IF IsRaise(items) THEN items
                      ELSE FindDuty(items.v, frame.val_index_int.v)
           att_slot == PyInt(Subscript(my_duty, "slot"))
       IN /\ calls' = Append(calls, Request("duties", frame.epoch))
          /\ IF IsRaise(available)
             THEN /\ frame' = [frame EXCEPT !.duties_data = duties_data]
                  /\ Crash(available.v)
             ELSE IF ~available.v
             THEN /\ frame' = [frame EXCEPT !.duties_data = duties_data]
                  /\ Return(V("DutiesUnavailable", <<frame.epoch>>), "main_240")
             ELSE IF IsRaise(my_duty)
             THEN /\ frame' = [frame EXCEPT !.duties_data = duties_data]
                  /\ Crash(my_duty.v)
             ELSE IF ~Truthy(my_duty)
             THEN /\ frame' = [frame EXCEPT !.duties_data = duties_data,
                                            !.my_duty = my_duty]
                  /\ Return(V("DutyNotFound", <<frame.epoch>>), "main_240")
             ELSE IF IsRaise(att_slot)
             THEN /\ frame' = [frame EXCEPT !.duties_data = duties_data,
                                            !.my_duty = my_duty]
                  /\ Crash(att_slot.v)
             ELSE /\ frame' = [frame EXCEPT !.duties_data = duties_data,
                                            !.my_duty = my_duty,
                                            !.att_slot = att_slot]
                  /\ Return(DutyTiming(att_slot.v, frame.current_slot.v),
                            "main_240")
  /\ UNCHANGED <<VALIDATOR_INDEX, probe, started>>

(***************************************************************************)
(* main                                                                    *)
(***************************************************************************)
\* the closing rule is printed and the process exits normally
Main_Exit ==
  /\ pc = "main_240"
  /\ pc' = "done"
  /\ UNCHANGED <<exc, VALIDATOR_INDEX, frame, probe, calls, started, ended,
                 verdict>>

Init ==
  /\ pc = "main_236"
  /\ exc = "none"
  /\ VALIDATOR_INDEX \in IndexConfigs
  /\ frame = MainFrame
  /\ probe = NoProbe
  /\ calls = <<>>
  /\ started = {}
  /\ ended = {}
  /\ verdict = NoVerdict

Next ==
  \/ Main_CallGeth
  \/ Geth_Reachability
  \/ Geth_EthSyncing
  \/ Geth_BlockNumber
  \/ Main_CallConsensus
  \/ Cons_Health
  \/ Cons_Syncing
  \/ Main_CallValidator
  \/ Val_ParseIndex
  \/ Val_LookupValidator
  \/ Val_LookupHead
  \/ Val_LookupDuties
  \/ Main_Exit

Spec == Init /\ [][Next]_vars

(***************************************************************************)
(* Properties.                                                             *)
(***************************************************************************)
AllChecks == {"check_geth_sync", "check_consensus_sync", "check_validator"}
InGeth == frame.fn = "check_geth_sync"
InConsensus == frame.fn = "check_consensus_sync"
InValidator == frame.fn = "check_validator"

IsDutyCall(c) == c.ep \in {"validator", "head", "duties"}
DutyCalls == SelectSeq(calls, IsDutyCall)
LastCall == calls[Len(calls)]

\* C1: whatever the endpoints answer and whatever VALIDATOR_INDEX holds, the
\* run of main completes: no exception ends the process, and at exit each of
\* the three checks has been started and has printed its verdict.
C1_EveryCheckEndsWithVerdict ==
  /\ pc # "crashed"
  /\ pc = "done" => started = AllChecks /\ ended = AllChecks

\* C2: once eth_syncing has answered result = false, the execution check ends
\* with Synced or SyncedUnknownHeight, whatever eth_blockNumber returns.
C2_FalseResultIsSynced ==
  (InGeth /\ frame.result = Bool(FALSE) /\ pc # "geth_87")
    => verdict.t \in {"Synced", "SyncedUnknownHeight"}

\* C3: for every eth_syncing result that is an object, the verdict is
\* Syncing{current, highest, remaining} with remaining = highest - current,
\* an absent currentBlock or highestBlock counting as 0.
C3_StructuredResultIsSyncing ==
  (InGeth /\ frame.result.t = "obj")
    => /\ verdict.t = "Syncing"
       /\ verdict.v[3].v = verdict.v[2].v - verdict.v[1].v
       /\ "currentBlock" \notin DOMAIN frame.result.v => verdict.v[1] = Num(0)
       /\ "highestBlock" \notin DOMAIN frame.result.v => verdict.v[2] = Num(0)

\* C4: a status code from the health probe, whether it came with a response
\* or with an HTTP error, decides the verdict: 206 is SyncingPartial, 503 is
\* Initializing, any code outside {200, 206, 503} is UnexpectedStatus with
\* that code; Unreachable is printed only when the probe failed below HTTP.
C4_StatusCodeDecidesVerdict ==
  (InConsensus /\ probe # NoProbe)
    => /\ probe.kind \in {"response", "http_error"} =>
            /\ probe.code = 206 => verdict = V("SyncingPartial", <<>>)
            /\ probe.code = 503 => verdict = V("Initializing", <<>>)
            /\ probe.code \notin {200, 206, 503} =>
                 verdict = V("UnexpectedStatus", <<Num(probe.code)>>)
            /\ probe.code = 200 => verdict.t \notin
                 {"Unreachable", "SyncingPartial", "Initializing", "UnexpectedStatus"}
       /\ verdict.t = "Unreachable" => probe.kind = "net_error"

\* an HTTP error that carries 503 has been classified as Initializing
C4_Witness ==
  /\ InConsensus
  /\ probe = Probe("http_error", 503)
  /\ verdict = V("Initializing", <<>>)

\* the is_syncing field of a /node/syncing payload, Absent when the payload is
\* not an object holding an object under data that has the field
IsSyncingField(sync_data) ==
  IF /\ sync_data.t = "obj"
     /\ "data" \in DOMAIN sync_data.v
     /\ sync_data.v["data"].t = "obj"
     /\ "is_syncing" \in DOMAIN sync_data.v["data"].v
  THEN sync_data.v["data"].v["is_syncing"]
  ELSE Absent

\* C5: after HTTP 200 the /node/syncing lookup is made and the verdict is
\* HealthyHeadCatchingUp{headSlot} if data.is_syncing is true, HealthySynced
\* if it is false, and HealthyUnknownSyncDetail for every other outcome.
C5_Http200Verdicts ==
  (InConsensus /\ frame.code = Num(200) /\ pc # "cons_124")
    => /\ LastCall.ep = "node_syncing"
       /\ LET b == IsSyncingField(frame.sync_data)
          IN CASE b = Bool(TRUE) ->
                    verdict = V("HealthyHeadCatchingUp",
                                <<Get(frame.sync_data.v["data"], "head_slot", Null)>>)
               [] b = Bool(FALSE) -> verdict = V("HealthySynced", <<>>)
               [] OTHER -> verdict = V("HealthyUnknownSyncDetail", <<>>)

\* the configured index is absent: unset or the empty text
IndexAbsent == VALIDATOR_INDEX \in {Null, Str(<<>>)}

\* C6: the lookups of the duty resolution are issued in the order validator,
\* head, duties, each at most once and each only after every earlier stage
\* succeeded; with no index configured the verdict is NoIndexConfigured and
\* the resolution issues no request.
C6_LookupsInOrder ==
  /\ \E n \in 0..3 :
       [i \in 1..Len(DutyCalls) |-> DutyCalls[i].ep] =
         SubSeq(<<"validator", "head", "duties">>, 1, n)
  /\ Len(DutyCalls) >= 1 =>
       /\ InValidator
       /\ ~IndexAbsent
       /\ frame.val_index_int.t = "num"
  /\ Len(DutyCalls) >= 2 =>
       /\ frame.v_data.t = "obj"
       /\ "data" \in DOMAIN frame.v_data.v
  /\ Len(DutyCalls) >= 3 =>
       /\ frame.head.t = "obj"
       /\ frame.current_slot.t = "num"
  /\ (InValidator /\ IndexAbsent /\ pc # "val_148") =>
       /\ verdict = V("NoIndexConfigured", <<>>)
       /\ DutyCalls = <<>>

\* all three lookups have been issued and the resolution has returned
C6_Witness ==
  /\ pc = "main_240"
  /\ Len(DutyCalls) = 3
  /\ verdict.t = "DutyNotFound"

\* the found entry carries a slot that is an integer
HasDutySlot(d) ==
  /\ d.t = "obj"
  /\ "slot" \in DOMAIN d.v
  /\ \/ d.v["slot"].t = "num"
     \/ /\ d.v["slot"].t = "str"
        /\ d.v["slot"].v # <<>>
        /\ \A i \in 1..Len(d.v["slot"].v) :
             d.v["slot"].v[i] \in {"0", "1", "2", "3", "4", "5", "6", "7", "8", "9"}

\* C7: for a found duty, slotsAway = dutySlot - currentSlot fixes the verdict:
\* positive gives Upcoming{dutySlot, slotsAway}, zero gives Imminent{dutySlot},
\* negative gives Past{dutySlot, -slotsAway}; the reported distance is
\* positive.  Slot 0 is a duty slot like any other.
C7_DutyTimingBySlotsAway ==
  (InValidator /\ frame.my_duty.t = "obj" /\ HasDutySlot(frame.my_duty))
    => /\ frame.att_slot.t = "num"
       /\ LET dutySlot == frame.att_slot.v
              slotsAway == dutySlot - frame.current_slot.v
          IN /\ slotsAway > 0 =>
                  verdict = V("Upcoming", <<Num(dutySlot), Num(slotsAway)>>)
             /\ slotsAway = 0 => verdict = V("Imminent", <<Num(dutySlot)>>)
             /\ slotsAway < 0 =>
                  verdict = V("Past", <<Num(dutySlot), Num(0 - slotsAway)>>)
             /\ verdict.t \in {"Upcoming", "Past"} => verdict.v[2].v > 0

\* a duty at slot 0 has been found while the head is at slot 0
C7_Witness ==
  /\ InValidator
  /\ frame.my_duty.t = "obj"
  /\ HasDutySlot(frame.my_duty)
  /\ frame.my_duty.v["slot"] = Str(<<"0">>)
  /\ frame.current_slot = Num(0)
  /\ verdict = V("Imminent", <<Num(0)>>)

\* entry d names validator n, as a number or as a numeric text
NamesValidator(d, n) ==
  /\ d.t = "obj"
  /\ "validator_index" \in DOMAIN d.v
  /\ PyInt(d.v["validator_index"]) = Num(n)

HasDataCollection(x) ==
  /\ x.t = "obj"
  /\ "data" \in DOMAIN x.v
  /\ x.v["data"].t = "arr"

\* C8: each failing stage has its own verdict: no validator record (absent,
\* or without a data key) is ValidatorNotFound, no chain head is
\* HeadUnavailable, a duties response without a data collection is
\* DutiesUnavailable{epoch}, and a data collection without an entry for the
\* configured index is DutyNotFound{epoch}.
C8_FailingStagesDistinct ==
  InValidator =>
    /\ (frame.v_data # Unset /\ ~(frame.v_data.t = "obj" /\ "data" \in DOMAIN frame.v_data.v))
         => verdict = V("ValidatorNotFound", <<>>)
    /\ frame.head = Null => verdict = V("HeadUnavailable", <<>>)
    /\ (frame.duties_data # Unset /\ ~HasDataCollection(frame.duties_data))
         => verdict = V("DutiesUnavailable", <<frame.epoch>>)
    /\ (/\ frame.duties_data # Unset
        /\ HasDataCollection(frame.duties_data)
        /\ \A i \in 1..Len(frame.duties_data.v["data"].v) :
             ~NamesValidator(frame.duties_data.v["data"].v[i], frame.val_index_int.v))
         => verdict = V("DutyNotFound", <<frame.epoch>>)

\* C9: a configured index that is not a non-negative integer is answered with
\* InvalidIndex and no lookup is issued for it.
C9_NegativeIndexRejected ==
  (/\ InValidator
   /\ ~IndexAbsent
   /\ (IsRaise(PyInt(VALIDATOR_INDEX)) \/ PyInt(VALIDATOR_INDEX).v < 0))
    => /\ DutyCalls = <<>>
       /\ pc \in {"main_240", "done"} => verdict = V("InvalidIndex", <<>>)

\* C10: for a non-negative head slot the epoch is floor(slot / 32): the
\* duties request is issued for it, and DutiesUnavailable and DutyNotFound
\* report it.
C10_EpochIsFloorOfSlot ==
  (InValidator /\ frame.current_slot.t = "num" /\ frame.current_slot.v >= 0)
    => LET slot == frame.current_slot.v
           epoch == CHOOSE e \in 0..slot : 32 * e <= slot /\ slot < 32 * (e + 1)
       IN /\ slot = 0 => epoch = 0
          /\ slot = 63 => epoch = 1
          /\ slot = 64 => epoch = 2
          /\ pc # "val_198" => LastCall = Request("duties", Num(epoch))
          /\ verdict.t \in {"DutiesUnavailable", "DutyNotFound"}
               => verdict.v = <<Num(epoch)>>

\* the head is at slot 63 and the duties of epoch 1 hold nothing for the index
C10_Witness ==
  /\ InValidator
  /\ frame.current_slot = Num(63)
  /\ LastCall = Request("duties", Num(1))
  /\ verdict = V("DutyNotFound", <<Num(1)>>)

====
